---- MODULE Spec2Model ----
(***************************************************************************)
(* The Referencer of packages/scope-manager: one synchronous walk over a   *)
(* syntax tree that opens and closes scopes, defines bindings and records  *)
(* references.  The walk is modelled as the sequence of handler entries    *)
(* and returns the visitor performs: the tree is the input, drawn token by *)
(* token (a token is the node the visitor reaches next, or the end of the  *)
(* children of the node it is in).                                         *)
(*                                                                         *)
(* Scope and ScopeManager are not part of src/: the operators that stand   *)
(* for them (__nestScope, __define, __referencing, __close, the option     *)
(* getters) follow sections 3, 4.1 and 4.2 of the specification.           *)
(***************************************************************************)
EXTENDS Integers, Sequences, FiniteSets, TLC

VARIABLES opts, mode, pc, stack, scopes, cur, refs, nnodes, status, last

vars == <<opts, mode, pc, stack, scopes, cur, refs, nnodes, status, last>>

(***************************************************************************)
(* The explored inputs.  A tree comes from one of the families below (the  *)
(* walk draws its tokens freely, up to the family's bound) or is one of    *)
(* the written-out programs of Scripts.                                    *)
(***************************************************************************)
\* tokens of a tree of the family "any": every construct under every option
MaxTokens == 2
\* tokens of a tree of the family "nest": every scope-introducing construct
MaxNestTokens == 3
\* tokens of a tree of the family "lex": functions, blocks, declarations, uses
MaxLexTokens == 5

\* tokens of a tree of the family "expr": assignments, updates, member
\* accesses and uses in functions that are strict or not
MaxExprTokens == 3

\* tokens of a tree of the family "pat": declarations of patterns, and uses
MaxPatTokens == 4

\* tokens of a tree of the family "loop": loops, blocks, declarations, uses
MaxLoopTokens == 3

\* tokens of a tree of the family "named": classes, functions, and uses
MaxNamedTokens == 3

Names == {"x", "y"}

\* a node as the visitor meets it: its type, the name of its id (or its plain
\* target), its kind or operator, whether it has an init, the strictness its
\* scope is created with, and its patterns (pats, set by With below)
Tk(t, name, kind, init, strict) ==
  [t |-> t, name |-> name, kind |-> kind, init |-> init, strict |-> strict,
   pats |-> <<>>]

\* a leaf of a pattern as the pattern visitor reports it: the name, whether
\* it is the whole pattern (topLevel), and the assignment patterns around it
\* from the outermost in, each TRUE when its left side is the leaf itself
Leaf(name, top, defaults) == [name |-> name, top |-> top, defaults |-> defaults]

\* a pattern: its leaves, left to right, and the names read by its right-hand
\* nodes (the default values), "" for one that reads none
Pattern(leaves, rights) == [leaves |-> leaves, rights |-> rights]

\* the pattern that is one identifier
PlainName(name) == Pattern(<< Leaf(name, TRUE, <<>>) >>, <<>>)

\* the node tok, its id being the pattern (or its params the patterns) pats
With(tok, pats) == [tok EXCEPT !.pats = pats]

\* the pattern of a node whose target is a plain name or one pattern
PatternOf(tok) == IF tok.pats = <<>> THEN PlainName(tok.name) ELSE tok.pats[1]

Enter(t, name) == Tk(t, name, "", FALSE, FALSE)

Leave == Tk("Leave", "", "", FALSE, FALSE)

\* <kind> <name>;  or  <kind> <name> = 1;
Declare(kind, name, init) ==
  << Tk("VariableDeclaration", "", kind, FALSE, FALSE),
     Tk("VariableDeclarator", name, kind, init, FALSE),
     Leave >>

\* console.log(x): the callee's object and the argument are the visited names
LogX == << Enter("Identifier", "console"), Enter("Identifier", "x") >>

\* {x = y}
ObjectDefault == Pattern(<< Leaf("x", FALSE, << TRUE >>) >>, << "y" >>)

\* [x, y]
ArrayOfTwo == Pattern(<< Leaf("x", FALSE, <<>>), Leaf("y", FALSE, <<>>) >>, <<>>)

\* {y: [x = 1] = y}
NestedDefault == Pattern(<< Leaf("x", FALSE, << FALSE, TRUE >>) >>, << "", "y" >>)

\* {a = f(), b: [c = 1]}
Destructured ==
  Pattern(<< Leaf("a", FALSE, << TRUE >>), Leaf("c", FALSE, << TRUE >>) >>,
          << "f", "" >>)

\* x = y, as a parameter
DefaultOf(name, right) == Pattern(<< Leaf(name, FALSE, << TRUE >>) >>, << right >>)

\* the parameters of a function: none, or one of (x), (x = x), ({x = y}),
\* or those of the written-out trees
ParameterLists ==
  { <<>>, << PlainName("x") >>, << DefaultOf("x", "x") >>, << ObjectDefault >>,
    << DefaultOf("f", "f") >>, << DefaultOf("x", "y"), PlainName("y") >> }

\* the patterns the free families draw from
PatternShapes == {ObjectDefault, ArrayOfTwo, NestedDefault}

\* the left sides of an assignment other than a plain name (<<>>)
AssignmentTargets == {<<>>} \cup {<< p >> : p \in PatternShapes}

\* the ids of a declarator other than a plain name (<<>>)
DeclaratorIds == {<<>>} \cup {<< p >> : p \in PatternShapes \cup {Destructured}}

\* function outer(){ var x = 1; { let x = 2; console.log(x); } console.log(x); }
Scenario1 ==
  << Enter("Program", ""), Enter("FunctionDeclaration", "outer") >>
  \o Declare("var", "x", TRUE)
  \o << Enter("BlockStatement", "") >> \o Declare("let", "x", TRUE) \o LogX
  \o << Leave >>
  \o LogX
  \o << Leave, Leave >>

\* function outer(){ x; { var x; x; } x; }
Hoisting ==
  << Enter("Program", ""), Enter("FunctionDeclaration", "outer"),
     Enter("Identifier", "x"), Enter("BlockStatement", "") >>
  \o Declare("var", "x", FALSE)
  \o << Enter("Identifier", "x"), Leave, Enter("Identifier", "x"), Leave, Leave >>

\* let x; { let x; { x; } x; } x;
Shadowing ==
  << Enter("Program", "") >> \o Declare("let", "x", FALSE)
  \o << Enter("BlockStatement", "") >> \o Declare("let", "x", FALSE)
  \o << Enter("BlockStatement", ""), Enter("Identifier", "x"), Leave,
        Enter("Identifier", "x"), Leave, Enter("Identifier", "x"), Leave >>

\* function f(){ y = 1; }
Scenario3 ==
  << Enter("Program", ""), Enter("FunctionDeclaration", "f"),
     Tk("AssignmentExpression", "y", "=", FALSE, FALSE), Leave, Leave, Leave >>

\* let {a = f(), b: [c = 1]} = obj
Destructuring ==
  << Enter("Program", ""), Tk("VariableDeclaration", "", "let", FALSE, FALSE),
     With(Tk("VariableDeclarator", "", "let", TRUE, FALSE), << Destructured >>),
     Enter("Identifier", "obj"), Leave, Leave >>

\* for (const k in obj) { use(k); }
Scenario2 ==
  << Enter("Program", ""), Tk("ForInStatement", "k", "const", FALSE, FALSE),
     Enter("Identifier", "obj"), Enter("BlockStatement", ""),
     Enter("Identifier", "use"), Enter("Identifier", "k"), Leave, Leave, Leave >>

\* class C { m() { C; } }
Scenario4 ==
  << Enter("Program", ""), Enter("ClassDeclaration", "C"), Enter("Body", ""),
     Enter("FunctionExpression", ""), Enter("Identifier", "C"),
     Leave, Leave, Leave >>

\* (function f(f = f) { f; });  function f(x = y, y) {}
Parameters ==
  << Enter("Program", ""),
     With(Enter("FunctionExpression", "f"), << DefaultOf("f", "f") >>),
     Enter("Identifier", "f"), Leave,
     With(Enter("FunctionDeclaration", "f"),
          << DefaultOf("x", "y"), PlainName("y") >>),
     Leave, Leave >>

\* { var x = function () {}, y; }
Initializers ==
  << Enter("Program", ""), Enter("BlockStatement", ""),
     Tk("VariableDeclaration", "", "var", FALSE, FALSE),
     Tk("VariableDeclarator", "x", "var", TRUE, FALSE),
     Enter("FunctionExpression", ""), Leave,
     Tk("VariableDeclarator", "y", "var", FALSE, FALSE),
     Leave, Leave, Leave >>

\* (class C extends C {});  switch (x) { case 0: let x; }  with (x) {}
Heads ==
  << Enter("Program", ""),
     Enter("ClassExpression", "C"), Enter("Identifier", "C"), Enter("Body", ""),
     Leave,
     Enter("SwitchStatement", ""), Enter("Identifier", "x"), Enter("Body", "") >>
  \o Declare("let", "x", FALSE)
  \o << Leave,
        Enter("WithStatement", ""), Enter("Identifier", "x"), Enter("Body", ""),
        Leave, Leave >>

\* (function () { x = 1; });  (function () { "use strict"; x = 1; });
StrictAndSloppy ==
  << Enter("Program", ""),
     Enter("FunctionExpression", ""),
     Tk("AssignmentExpression", "x", "=", FALSE, FALSE), Leave, Leave,
     Tk("FunctionExpression", "", "", FALSE, TRUE),
     Tk("AssignmentExpression", "x", "=", FALSE, FALSE), Leave, Leave,
     Leave >>

\* (function x() { x; });  x;
SelfName ==
  << Enter("Program", ""), Enter("FunctionExpression", "x"),
     Enter("Identifier", "x"), Leave, Enter("Identifier", "x"), Leave >>

\* { var x; x; }  switch (x) { case 0: var y; }  try {} catch (k) { k; }
Legacy ==
  << Enter("Program", ""), Enter("BlockStatement", "") >>
  \o Declare("var", "x", FALSE)
  \o << Enter("Identifier", "x"), Leave,
        Enter("SwitchStatement", ""), Enter("Identifier", "x"), Enter("Body", "") >>
  \o Declare("var", "y", FALSE)
  \o << Leave, Enter("CatchClause", "k"), Enter("Identifier", "k"), Leave, Leave >>

\* var x = 1;  for (x in obj) {}
Loops ==
  << Enter("Program", "") >> \o Declare("var", "x", TRUE)
  \o << Tk("ForInStatement", "x", "", FALSE, FALSE), Enter("Identifier", "obj"),
        Leave, Leave >>

Scripts ==
  [loops |-> Loops, legacy |-> Legacy, strictness |-> StrictAndSloppy, selfname |-> SelfName, heads |-> Heads, initializers |-> Initializers, parameters |-> Parameters, s1 |-> Scenario1, hoisting |-> Hoisting, shadowing |-> Shadowing,
   s3 |-> Scenario3, destructuring |-> Destructuring, s2 |-> Scenario2,
   s4 |-> Scenario4]

ScopeTypes ==
  {"Program", "FunctionDeclaration", "FunctionExpression",
   "ArrowFunctionExpression", "BlockStatement", "ClassDeclaration",
   "ClassExpression", "WithStatement", "SwitchStatement", "CatchClause",
   "ForStatement", "ForInStatement"}

LexTypes ==
  {"Program", "BlockStatement", "FunctionDeclaration", "VariableDeclaration",
   "VariableDeclarator", "Identifier"}

AllTypes ==
  ScopeTypes \cup LexTypes \cup {"ImportDeclaration"}

PatTypes == {"Program", "VariableDeclaration", "VariableDeclarator", "Identifier"}

ForTypes == {"ForStatement", "ForInStatement", "ForOfStatement"}

LoopTypes ==
  ForTypes \cup {"Program", "BlockStatement", "VariableDeclaration",
                  "VariableDeclarator", "Identifier"}

NamedTypes ==
  {"Program", "ClassDeclaration", "ClassExpression", "FunctionDeclaration",
   "FunctionExpression", "Identifier"}

ExprTypes ==
  {"Program", "FunctionExpression", "AssignmentExpression", "UpdateExpression",
   "MemberExpression", "Identifier"}

AllOptions ==
  [ecmaVersion : {3, 5, 6}, sourceType : {"script", "module"},
   nodejsScope : BOOLEAN, impliedStrict : BOOLEAN]

\* script, ES6, no host wrapper, no hint
PlainES6 ==
  {o \in AllOptions : /\ o.ecmaVersion = 6 /\ o.sourceType = "script"
                       /\ ~o.nodejsScope /\ ~o.impliedStrict}

Families ==
  [any |-> [max |-> MaxTokens, types |-> AllTypes, names |-> Names,
            strict |-> {FALSE}, pats |-> {<<>>}, options |-> AllOptions],
   nest |-> [max |-> MaxNestTokens, types |-> ScopeTypes, names |-> {"x"},
             strict |-> {FALSE}, pats |-> {<<>>}, options |-> PlainES6],
   lex |-> [max |-> MaxLexTokens, types |-> LexTypes, names |-> {"x"},
            strict |-> {FALSE}, pats |-> {<<>>},
            options |-> {o \in AllOptions : /\ o.ecmaVersion > 3
                                            /\ o.sourceType = "script"
                                            /\ ~o.nodejsScope
                                            /\ ~o.impliedStrict}],
   expr |-> [max |-> MaxExprTokens, types |-> ExprTypes, names |-> {"x"},
             strict |-> BOOLEAN, pats |-> {<<>>, << ObjectDefault >>},
             options |-> PlainES6],
   pat |-> [max |-> MaxPatTokens, types |-> PatTypes, names |-> {"x"},
            strict |-> {FALSE},
            pats |-> {<<>>} \cup {<< p >> : p \in PatternShapes},
            options |-> PlainES6],
   named |-> [max |-> MaxNamedTokens, types |-> NamedTypes, names |-> {"x"},
              strict |-> {FALSE},
              pats |-> {<<>>, << PlainName("x") >>, << DefaultOf("x", "x") >>},
              options |-> PlainES6],
   loop |-> [max |-> MaxLoopTokens, types |-> LoopTypes, names |-> {"x"},
             strict |-> {FALSE}, pats |-> {<<>>},
             options |-> {o \in AllOptions : /\ o.ecmaVersion > 3
                                             /\ o.sourceType = "script"
                                             /\ ~o.nodejsScope
                                             /\ ~o.impliedStrict}]]

Free == DOMAIN Families

\* every name a tree may use; the families use their own names only
AllNames == Names \cup {"outer", "console", "f", "obj", "k", "use", "C"}

\* the next node the visitor reaches is tok
Allowed(tok) ==
  IF mode \in Free
  THEN /\ pc < Families[mode].max
       /\ tok.t \in Families[mode].types
       /\ tok.name \in Families[mode].names \cup {""}
       /\ tok.strict \in Families[mode].strict
       /\ tok.pats \in Families[mode].pats
       /\ tok.kind # "const"
  ELSE pc < Len(Scripts[mode]) /\ Scripts[mode][pc + 1] = tok

(***************************************************************************)
(* ScopeManager: options.                                                  *)
(***************************************************************************)
__isES6 == opts.ecmaVersion >= 6

isModule == opts.sourceType = "module"

__isNodejsScope == opts.nodejsScope

isImpliedStrict == opts.impliedStrict

isStrictModeSupported == opts.ecmaVersion >= 5

(***************************************************************************)
(* The scope manager's state as one value, so that the handlers are        *)
(* functions from manager to manager.                                      *)
(***************************************************************************)
Mgr == [scopes |-> scopes, cur |-> cur, refs |-> refs]

Commit(M) == scopes' = M.scopes /\ cur' = M.cur /\ refs' = M.refs

Range(s) == {s[i] : i \in DOMAIN s}

HasVar(sc, name) == \E i \in DOMAIN sc.variables : sc.variables[i].name = name

VarIdx(sc, name) == CHOOSE i \in DOMAIN sc.variables : sc.variables[i].name = name

VarScopeTypes == {"global", "function", "module"}

\* a syntax node as the scopes and definitions hold it: its identity, its type
\* and the name of its id ("" when it has none)
Node(id, type, name) == [id |-> id, type |-> type, name |-> name]

\* a Definition; at is the scope that was current when it was made; its index
\* is null (-1) unless it is a ParameterDefinition
Definition(type, node, kind, at) ==
  [type |-> type, node |-> node.id, kind |-> kind, at |-> at, index |-> -1]

\* the Definition of a leaf of the parameter at position index of node
ParameterDefinition(node, index, at) ==
  [Definition("Parameter", node, "", at) EXCEPT !.index = index]

\* nest(kind, construct): push a new Scope whose upper is the current scope;
\* since is the number of references recorded before it was nested, and
\* closedAt lists its closes, each as its rank among the closes of the walk
__nestScope(M, type, block, strict) ==
  LET id == Len(M.scopes) + 1
      sc == [type |-> type, block |-> block, upper |-> M.cur,
             variableScope |-> IF type \in VarScopeTypes THEN id
                               ELSE M.scopes[M.cur].variableScope,
             isStrict |-> strict, variables |-> <<>>, references |-> <<>>,
             through |-> <<>>, closed |-> FALSE, since |-> Len(M.refs),
             closedAt |-> <<>>]
  IN [M EXCEPT !.scopes = Append(@, sc), !.cur = id]

\* Scope.__define: a Variable is created on first definition and reused
__define(M, s, name, def) ==
  LET sc == M.scopes[s] IN
  IF HasVar(sc, name)
  THEN [M EXCEPT !.scopes[s].variables[VarIdx(sc, name)].defs = Append(@, def)]
  ELSE [M EXCEPT !.scopes[s].variables =
          Append(@, [name |-> name, defs |-> <<def>>, references |-> <<>>])]

\* Scope.__referencing: record a reference against scope s
__referencing(M, s, name, flag, writeExpr, maybeImplicitGlobal, partial, init) ==
  LET r == [name |-> name, from |-> s, flag |-> flag, writeExpr |-> writeExpr,
            maybeImplicitGlobal |-> maybeImplicitGlobal, partial |-> partial,
            init |-> init, resolved |-> 0]
  IN [M EXCEPT !.refs = Append(@, r),
               !.scopes[s].references = Append(@, Len(M.refs) + 1)]

\* __close that looks a name up in one table of all the scopes' variables
__closeByNameTable(M) ==
  LET s == M.cur
      sc == M.scopes[s]
      pending == sc.references \o sc.through
      owners(r) == {v \in DOMAIN M.scopes : HasVar(M.scopes[v], M.refs[r].name)}
  IN [scopes |-> [M.scopes EXCEPT ![s].closed = TRUE],
      cur |-> sc.upper,
      refs |-> [r \in DOMAIN M.refs |->
                  IF r \in Range(pending) /\ owners(r) # {}
                  THEN [M.refs[r] EXCEPT !.resolved =
                          CHOOSE v \in owners(r) : \A w \in owners(r) : v <= w]
                  ELSE M.refs[r]]]

Closed(S) == {s \in DOMAIN S : S[s].closed}

\* Scope.__close: resolve the scope's own and forwarded references by name,
\* forward the rest to upper.through, and return upper
__close(M) ==
  LET s == M.cur
      sc == M.scopes[s]
      pending == sc.references \o sc.through
      here(r) == HasVar(sc, M.refs[r].name)
      left == SelectSeq(pending, LAMBDA r : ~here(r))
      vs == [i \in DOMAIN sc.variables |->
               [sc.variables[i] EXCEPT !.references =
                  @ \o SelectSeq(pending,
                         LAMBDA r : M.refs[r].name = sc.variables[i].name)]]
      rs == [r \in DOMAIN M.refs |->
               IF r \in Range(pending) /\ here(r)
               THEN [M.refs[r] EXCEPT !.resolved = s] ELSE M.refs[r]]
      scs == [M.scopes EXCEPT ![s].variables = vs, ![s].closed = TRUE,
                              ![s].closedAt =
                                Append(@, 1 + Cardinality(Closed(M.scopes)))]
  IN [scopes |-> IF sc.upper # 0
                 THEN [scs EXCEPT ![sc.upper].through = @ \o left] ELSE scs,
      cur |-> sc.upper,
      refs |-> rs]

__nestGlobalScope(M, node, strict) == __nestScope(M, "global", node, strict)

__nestModuleScope(M, node, strict) == __nestScope(M, "module", node, strict)

__nestFunctionScope(M, node, strict) == __nestScope(M, "function", node, strict)

__nestBlockScope(M, node, strict) == __nestScope(M, "block", node, strict)

__nestSwitchScope(M, node, strict) == __nestScope(M, "switch", node, strict)

__nestCatchScope(M, node, strict) == __nestScope(M, "catch", node, strict)

__nestWithScope(M, node, strict) == __nestScope(M, "with", node, strict)

__nestClassScope(M, node, strict) == __nestScope(M, "class", node, strict)

__nestForScope(M, node, strict) == __nestScope(M, "for", node, strict)

\* the scope of a named function expression binds the function's own name
__nestFunctionExpressionNameScope(M, node, name, strict) ==
  LET M1 == __nestScope(M, "function-expression-name", node, strict)
  IN __define(M1, M1.cur, name, Definition("FunctionName", node, "", M1.cur))

(***************************************************************************)
(* Referencer.                                                             *)
(***************************************************************************)
\* close without the comparison of the scope's block with the node
closeUnchecked(M, node) ==
  IF M.cur # 0 THEN __close(M) ELSE M

\* close that closes the scope the node opened first before the ones it
\* opened after it
closeOutermostFirst(M, node) ==
  LET mine == {s \in DOMAIN M.scopes :
                 M.scopes[s].block.id = node.id /\ ~M.scopes[s].closed}
      first == CHOOSE s \in mine : \A t \in mine : s <= t
  IN IF M.cur # 0 /\ M.scopes[M.cur].block.id = node.id
     THEN __close([M EXCEPT !.cur = first])
     ELSE M

\* close that closes the current scope only
closeOnce(M, node) ==
  IF M.cur # 0 /\ M.scopes[M.cur].block.id = node.id THEN __close(M) ELSE M

RECURSIVE close(_, _)
close(M, node) ==
  IF M.cur # 0 /\ M.scopes[M.cur].block.id = node.id
  THEN close(__close(M), node)
  ELSE M

\* a frame of the visitor: the handler that is running and where it stands
Frame(id, ctx, tok) ==
  [node |-> Node(id, tok.t, tok.name), type |-> tok.t, ctx |-> ctx, target |-> 0,
   kind |-> tok.kind, name |-> tok.name, strict |-> tok.strict]

\* what the last step of the walk was: the handler entered (op "visit", with
\* its node and the number of references recorded before it), or the handler
\* that returned (op "return", with its frame and the scopes its close closed)
Visited(tok) ==
  [op |-> "visit", type |-> tok.t, closed |-> 0, tok |-> tok, before |-> Len(refs)]

\* the handlers that visit a head expression before they nest their scope
HeadTypes == {"ClassDeclaration", "ClassExpression", "WithStatement", "SwitchStatement"}

Top == stack[Len(stack)]

Push(f) == stack' = Append(stack, f)

Pop == stack' = SubSeq(stack, 1, Len(stack) - 1)

Walking == status = "walking" /\ Len(stack) > 0

\* the node the visitor is in takes statements as children
InStatements == Walking /\ Top.ctx = "stmt"

\* the node the visitor is in takes expressions as children
InExpressions == Walking /\ Top.ctx \in {"stmt", "expr", "head"}

Step == pc' = pc + 1 /\ nnodes' = nnodes + 1

StrictInputs == BOOLEAN

\* node.kind of a VariableDeclaration (const in the written-out trees only)
DeclarationKinds == {"var", "let", "const"}


\* the visitor reaches the node tok: its handler runs up to the visit of its
\* children, leaving the manager as M and the visitor's frames as stk
Visit(tok, M, stk) ==
  /\ Allowed(tok)
  /\ Commit(M)
  /\ stack' = stk
  /\ Step
  /\ last' = Visited(tok)
  /\ UNCHANGED <<opts, mode>>

\* Program that applies the implied-strict hint to the Global scope
ProgramScopesHintOnGlobal(M, node, strict) ==
  LET M1 == __nestGlobalScope(M, node, strict)
      M2 == IF __isNodejsScope
            THEN __nestFunctionScope(
                   [M1 EXCEPT !.scopes[M1.cur].isStrict = FALSE], node, strict)
            ELSE M1
      M3 == IF __isES6 /\ isModule THEN __nestModuleScope(M2, node, strict) ELSE M2
  IN IF isStrictModeSupported /\ isImpliedStrict
     THEN [M3 EXCEPT !.scopes[1].isStrict = TRUE]
     ELSE M3

\* Program up to the visit of its children
ProgramScopes(M, node, strict) ==
  LET M1 == __nestGlobalScope(M, node, strict)
      M2 == IF __isNodejsScope
            THEN __nestFunctionScope(
                   [M1 EXCEPT !.scopes[M1.cur].isStrict = FALSE], node, strict)
            ELSE M1
      M3 == IF __isES6 /\ isModule THEN __nestModuleScope(M2, node, strict) ELSE M2
  IN IF isStrictModeSupported /\ isImpliedStrict
     THEN [M3 EXCEPT !.scopes[M3.cur].isStrict = TRUE]
     ELSE M3

Program ==
  /\ status = "start"
  /\ \E strict \in StrictInputs :
       LET tok == Tk("Program", "", "", FALSE, strict)
           f == Frame(nnodes + 1, "stmt", tok)
       IN Visit(tok, ProgramScopes(Mgr, f.node, strict), <<f>>)
  /\ status' = "walking"

\* referencingDefaultValue that records the writes as not initializing
RECURSIVE referencingDefaultValueNotInit(_, _, _, _, _)
referencingDefaultValueNotInit(M, pattern, assignments, maybeImplicitGlobal, init) ==
  IF assignments = <<>> THEN M
  ELSE referencingDefaultValueNotInit(
         __referencing(M, M.cur, pattern.name, "w", "default", maybeImplicitGlobal,
                       ~Head(assignments), FALSE),
         pattern, Tail(assignments), maybeImplicitGlobal, init)

\* referencingDefaultValue: one write to the leaf per assignment pattern
\* around it; partial when the assignment's left side is not the leaf
RECURSIVE referencingDefaultValue(_, _, _, _, _)
referencingDefaultValue(M, pattern, assignments, maybeImplicitGlobal, init) ==
  IF assignments = <<>> THEN M
  ELSE referencingDefaultValue(
         __referencing(M, M.cur, pattern.name, "w", "default", maybeImplicitGlobal,
                       ~Head(assignments), init),
         pattern, Tail(assignments), maybeImplicitGlobal, init)

\* the Identifier handler on the node of a name
IdentifierOf(M, name) ==
  __referencing(M, M.cur, name, "r", "none", FALSE, FALSE, FALSE)

\* traverseIdentifierInPattern, after the leaves: the right-hand nodes are
\* visited; each is a name that is read, or an expression that reads none
RECURSIVE visitRightHandNodes(_, _)
visitRightHandNodes(M, rightHandNodes) ==
  IF rightHandNodes = <<>> THEN M
  ELSE visitRightHandNodes(
         IF Head(rightHandNodes) = "" THEN M ELSE IdentifierOf(M, Head(rightHandNodes)),
         Tail(rightHandNodes))

\* visitFunction that gives every named function a scope for its name
visitFunctionNameScope(M, node, strict) ==
  LET M1 == IF node.type = "FunctionDeclaration" /\ node.name # ""
            THEN __define(M, M.cur, node.name,
                          Definition("FunctionName", node, "", M.cur))
            ELSE M
      M2 == IF node.name # ""
            THEN __nestFunctionExpressionNameScope(M1, node, node.name, strict)
            ELSE M1
  IN __nestFunctionScope(M2, node, strict)

\* visitFunction that defines a declaration's name in the function's own scope
visitFunctionNameInside(M, node, strict) ==
  LET M2 == IF node.type = "FunctionExpression" /\ node.name # ""
            THEN __nestFunctionExpressionNameScope(M, node, node.name, strict)
            ELSE M
      M3 == __nestFunctionScope(M2, node, strict)
  IN IF node.type = "FunctionDeclaration" /\ node.name # ""
     THEN __define(M3, M3.cur, node.name,
                   Definition("FunctionName", node, "", M3.cur))
     ELSE M3

\* visitFunction up to the processing of the parameters
visitFunction(M, node, strict) ==
  LET M1 == IF node.type = "FunctionDeclaration" /\ node.name # ""
            THEN __define(M, M.cur, node.name,
                          Definition("FunctionName", node, "", M.cur))
            ELSE M
      M2 == IF node.type = "FunctionExpression" /\ node.name # ""
            THEN __nestFunctionExpressionNameScope(M1, node, node.name, strict)
            ELSE M1
  IN __nestFunctionScope(M2, node, strict)

\* the callback visitFunction gives to visitPattern, defining the parameter
\* in the scope around the function
parameterLeafInUpper(M, node, i, leaf) ==
  referencingDefaultValue(
    __define(M, M.scopes[M.cur].upper, leaf.name,
             ParameterDefinition(node, i, M.cur)),
    leaf, leaf.defaults, FALSE, TRUE)

\* the callback visitFunction gives to visitPattern, on one leaf of the
\* parameter at position i
parameterLeaf(M, node, i, leaf) ==
  referencingDefaultValue(
    __define(M, M.cur, leaf.name, ParameterDefinition(node, i, M.cur)),
    leaf, leaf.defaults, FALSE, TRUE)

RECURSIVE parameterLeaves(_, _, _, _)
parameterLeaves(M, node, i, leaves) ==
  IF leaves = <<>> THEN M
  ELSE parameterLeaves(parameterLeaf(M, node, i, Head(leaves)), node, i,
                       Tail(leaves))

\* visitFunction's loop over node.params, from position i on: each parameter
\* is decomposed, and then its right-hand nodes are visited
RECURSIVE visitParameters(_, _, _, _)
visitParameters(M, node, params, i) ==
  IF params = <<>> THEN M
  ELSE visitParameters(
         visitRightHandNodes(parameterLeaves(M, node, i, Head(params).leaves),
                             Head(params).rights),
         node, Tail(params), i + 1)

FunctionDeclaration ==
  /\ InStatements
  /\ \E name \in AllNames, strict \in StrictInputs, params \in ParameterLists :
       LET tok == With(Tk("FunctionDeclaration", name, "", FALSE, strict), params)
           f == Frame(nnodes + 1, "stmt", tok)
       IN Visit(tok,
                visitParameters(visitFunction(Mgr, f.node, strict), f.node, params, 0),
                Append(stack, f))
  /\ UNCHANGED status

FunctionExpression ==
  /\ InExpressions
  /\ \E name \in AllNames \cup {""}, strict \in StrictInputs,
        params \in ParameterLists :
       LET tok == With(Tk("FunctionExpression", name, "", FALSE, strict), params)
           f == Frame(nnodes + 1, "stmt", tok)
       IN Visit(tok,
                visitParameters(visitFunction(Mgr, f.node, strict), f.node, params, 0),
                Append(stack, f))
  /\ UNCHANGED status

ArrowFunctionExpression ==
  /\ InExpressions
  /\ \E strict \in StrictInputs, params \in ParameterLists :
       LET tok == With(Tk("ArrowFunctionExpression", "", "", FALSE, strict), params)
           f == Frame(nnodes + 1, "stmt", tok)
       IN Visit(tok,
                visitParameters(visitFunction(Mgr, f.node, strict), f.node, params, 0),
                Append(stack, f))
  /\ UNCHANGED status

\* BlockStatement that nests a Block scope in every edition
BlockStatementAlwaysScoped ==
  /\ InStatements
  /\ \E strict \in StrictInputs :
       LET tok == Tk("BlockStatement", "", "", FALSE, strict)
           f == Frame(nnodes + 1, "stmt", tok)
       IN Visit(tok, __nestBlockScope(Mgr, f.node, strict), Append(stack, f))
  /\ UNCHANGED status

BlockStatement ==
  /\ InStatements
  /\ \E strict \in StrictInputs :
       LET tok == Tk("BlockStatement", "", "", FALSE, strict)
           f == Frame(nnodes + 1, "stmt", tok)
       IN Visit(tok,
                IF __isES6 THEN __nestBlockScope(Mgr, f.node, strict) ELSE Mgr,
                Append(stack, f))
  /\ UNCHANGED status

Identifier ==
  /\ InExpressions
  /\ \E name \in AllNames :
       Visit(Enter("Identifier", name),
             __referencing(Mgr, cur, name, "r", "none", FALSE, FALSE, FALSE),
             stack)
  /\ UNCHANGED status

\* every declaration defines its names in the current scope
variableTargetScopeCurrent(M, kind) == M.cur

\* every declaration defines its names in the nearest variable scope
variableTargetScopeHoisted(M, kind) == M.scopes[M.cur].variableScope

\* the scope a declaration of this kind defines its names in
variableTargetScope(M, kind) ==
  IF kind = "var" THEN M.scopes[M.cur].variableScope ELSE M.cur

\* VariableDeclaration up to its loop; as a statement, or as the init of a
\* for statement
VariableDeclaration ==
  /\ Walking
  /\ \E kind \in DeclarationKinds :
       LET tok == Tk("VariableDeclaration", "", kind, FALSE, FALSE)
           f == [Frame(nnodes + 1, "decl", tok)
                   EXCEPT !.target = variableTargetScope(Mgr, kind)]
       IN /\ Top.ctx = "stmt" \/ (Top.ctx = "for-init" /\ Top.kind = kind)
          /\ Visit(tok, Mgr, Append([stack EXCEPT ![Len(stack)].ctx = "stmt"], f))
  /\ UNCHANGED status

\* the leaf callback that defines the name in the scope that was nested last
declaredLeafInNewest(M, target, node, kind, init, leaf) ==
  LET M1 == __define(M, Len(M.scopes), leaf.name,
                     Definition("Variable", node, kind, M.cur))
      M2 == referencingDefaultValue(M1, leaf, leaf.defaults, FALSE, TRUE)
  IN IF init
     THEN __referencing(M2, M2.cur, leaf.name, "w", "init", FALSE, ~leaf.top, TRUE)
     ELSE M2

\* the leaf callback whose write for the initializer is never partial
declaredLeafNeverPartial(M, target, node, kind, init, leaf) ==
  LET M1 == __define(M, target, leaf.name, Definition("Variable", node, kind, M.cur))
      M2 == referencingDefaultValue(M1, leaf, leaf.defaults, FALSE, TRUE)
  IN IF init
     THEN __referencing(M2, M2.cur, leaf.name, "w", "init", FALSE, FALSE, TRUE)
     ELSE M2

\* the callback visitVariableDeclaration gives to visitPattern, on one leaf
declaredLeaf(M, target, node, kind, init, leaf) ==
  LET M1 == __define(M, target, leaf.name, Definition("Variable", node, kind, M.cur))
      M2 == referencingDefaultValue(M1, leaf, leaf.defaults, FALSE, TRUE)
  IN IF init
     THEN __referencing(M2, M2.cur, leaf.name, "w", "init", FALSE, ~leaf.top, TRUE)
     ELSE M2

RECURSIVE declaredLeaves(_, _, _, _, _, _)
declaredLeaves(M, target, node, kind, init, leaves) ==
  IF leaves = <<>> THEN M
  ELSE declaredLeaves(declaredLeaf(M, target, node, kind, init, Head(leaves)),
                      target, node, kind, init, Tail(leaves))

\* the leaf callback without the write reference for the initializer
visitVariableDeclarationNoWrite(M, target, node, kind, init, id) ==
  visitRightHandNodes(declaredLeaves(M, target, node, kind, FALSE, id.leaves),
                      id.rights)

\* one declarator, whose id is the pattern id
visitVariableDeclaration(M, target, node, kind, init, id) ==
  visitRightHandNodes(declaredLeaves(M, target, node, kind, init, id.leaves),
                      id.rights)

\* one turn of VariableDeclaration's loop; decl.init is visited next
VariableDeclarator ==
  /\ Walking
  /\ Top.type = "VariableDeclaration"
  /\ \E name \in AllNames \cup {""}, init \in BOOLEAN, pats \in DeclaratorIds :
       LET tok == With(Tk("VariableDeclarator", name, Top.kind, init, FALSE), pats) IN
       /\ name = "" <=> pats # <<>>
       /\ Visit(tok,
                visitVariableDeclaration(Mgr, Top.target,
                                         Node(nnodes + 1, tok.t, name),
                                         Top.kind, init, PatternOf(tok)),
                [stack EXCEPT ![Len(stack)].ctx = IF init THEN "expr" ELSE "decl"])
  /\ UNCHANGED status

\* visitClass that nests the Class scope before the visit of node.superClass
visitClassScopeFirst(M, node) ==
  LET M1 == IF node.type = "ClassDeclaration" /\ node.name # ""
            THEN __define(M, M.cur, node.name,
                          Definition("ClassName", node, "", M.cur))
            ELSE M
  IN __nestClassScope(M1, node, FALSE)

\* the part of visitClass before the visit of node.superClass
visitClass(M, node) ==
  IF node.type = "ClassDeclaration" /\ node.name # ""
  THEN __define(M, M.cur, node.name, Definition("ClassName", node, "", M.cur))
  ELSE M

ClassDeclaration ==
  /\ InStatements
  /\ \E name \in AllNames, strict \in StrictInputs :
       LET tok == Tk("ClassDeclaration", name, "", FALSE, strict)
           f == Frame(nnodes + 1, "head", tok)
       IN Visit(tok, visitClass(Mgr, f.node), Append(stack, f))
  /\ UNCHANGED status

ClassExpression ==
  /\ InExpressions
  /\ \E name \in AllNames \cup {""}, strict \in StrictInputs :
       LET tok == Tk("ClassExpression", name, "", FALSE, strict)
           f == Frame(nnodes + 1, "head", tok)
       IN Visit(tok, visitClass(Mgr, f.node), Append(stack, f))
  /\ UNCHANGED status

\* WithStatement up to the visit of node.object
WithStatement ==
  /\ InStatements
  /\ \E strict \in StrictInputs :
       LET tok == Tk("WithStatement", "", "", FALSE, strict) IN
       Visit(tok, Mgr, Append(stack, Frame(nnodes + 1, "head", tok)))
  /\ UNCHANGED status

\* SwitchStatement up to the visit of node.discriminant
SwitchStatement ==
  /\ InStatements
  /\ \E strict \in StrictInputs :
       LET tok == Tk("SwitchStatement", "", "", FALSE, strict) IN
       Visit(tok, Mgr, Append(stack, Frame(nnodes + 1, "head", tok)))
  /\ UNCHANGED status

\* the rest of the handler of a HeadTypes node, with no definition of the
\* class name in the Class scope
nestAfterHeadUnnamed(M, f) ==
  CASE f.type \in {"ClassDeclaration", "ClassExpression"} ->
         __nestClassScope(M, f.node, f.strict)
    [] f.type = "WithStatement" -> __nestWithScope(M, f.node, f.strict)
    [] f.type = "SwitchStatement" ->
         IF __isES6 THEN __nestSwitchScope(M, f.node, f.strict) ELSE M

\* what the handler of a HeadTypes node does once its head expression
\* (superClass, object, discriminant) has been visited
nestAfterHead(M, f) ==
  CASE f.type \in {"ClassDeclaration", "ClassExpression"} ->
         LET M1 == __nestClassScope(M, f.node, f.strict) IN
         IF f.name # ""
         THEN __define(M1, M1.cur, f.name,
                       Definition("ClassName", f.node, "", M1.cur))
         ELSE M1
    [] f.type = "WithStatement" -> __nestWithScope(M, f.node, f.strict)
    [] f.type = "SwitchStatement" ->
         IF __isES6 THEN __nestSwitchScope(M, f.node, f.strict) ELSE M

\* the head expression is done: the handler nests its scope and goes on to
\* the class body, the with body, the switch cases
HeadReturn ==
  /\ Walking
  /\ Top.type \in HeadTypes /\ Top.ctx = "head"
  /\ mode \in Free \/ Allowed(Enter("Body", ""))
  /\ Commit(nestAfterHead(Mgr, Top))
  /\ stack' = [stack EXCEPT ![Len(stack)].ctx =
                 IF Top.type \in {"ClassDeclaration", "ClassExpression"}
                 THEN "expr" ELSE "stmt"]
  /\ pc' = IF mode \in Free THEN pc ELSE pc + 1
  /\ last' = [op |-> "body", type |-> Top.type, closed |-> 0]
  /\ UNCHANGED <<opts, mode, nnodes, status>>

\* CatchClause up to the visit of its body; node.param is a plain name or absent
CatchClause ==
  /\ InStatements
  /\ \E name \in AllNames \cup {""}, strict \in StrictInputs :
       LET tok == Tk("CatchClause", name, "", FALSE, strict)
           f == Frame(nnodes + 1, "stmt", tok)
           M1 == __nestCatchScope(Mgr, f.node, strict)
       IN Visit(tok,
                IF name # ""
                THEN __define(M1, M1.cur, name,
                              Definition("CatchClause", f.node, "", M1.cur))
                ELSE M1,
                Append(stack, f))
  /\ UNCHANGED status

\* ForStatement up to the visit of its children; node.init is a declaration
\* of this kind, or none (kind "")
ForStatement ==
  /\ InStatements
  /\ \E kind \in {""} \cup DeclarationKinds, strict \in StrictInputs :
       LET tok == Tk("ForStatement", "", kind, FALSE, strict)
           f == Frame(nnodes + 1, IF kind = "" THEN "stmt" ELSE "for-init", tok)
       IN Visit(tok,
                IF kind \notin {"", "var"}
                THEN __nestForScope(Mgr, f.node, strict) ELSE Mgr,
                Append(stack, f))
  /\ UNCHANGED status

\* visitForIn that nests a For scope for every declaration in the head
visitForInAlwaysScoped(M, node, kind, strict) ==
  IF kind # ""
  THEN LET M1 == __nestForScope(M, node, strict)
           M2 == visitVariableDeclaration(M1, variableTargetScope(M1, kind),
                                          node, kind, FALSE, PlainName(node.name))
       IN __referencing(M2, M2.cur, node.name, "w", "right", FALSE, TRUE, TRUE)
  ELSE __referencing(M, M.cur, node.name, "w", "right",
                     ~M.scopes[M.cur].isStrict, TRUE, FALSE)

\* visitForIn up to the visit of node.right; node.left is a declaration of
\* one plain name (kind "var" or "let") or a plain name (kind "")
visitForIn(M, node, kind, strict) ==
  IF kind # ""
  THEN LET M1 == IF kind # "var" THEN __nestForScope(M, node, strict) ELSE M
           M2 == visitVariableDeclaration(M1, variableTargetScope(M1, kind),
                                          node, kind, FALSE, PlainName(node.name))
       IN __referencing(M2, M2.cur, node.name, "w", "right", FALSE, TRUE, TRUE)
  ELSE __referencing(M, M.cur, node.name, "w", "right",
                     ~M.scopes[M.cur].isStrict, TRUE, FALSE)

ForInStatement ==
  /\ InStatements
  /\ \E kind \in {""} \cup DeclarationKinds, name \in AllNames,
        strict \in StrictInputs :
       LET tok == Tk("ForInStatement", name, kind, FALSE, strict)
           f == Frame(nnodes + 1, "stmt", tok)
       IN Visit(tok, visitForIn(Mgr, f.node, kind, strict), Append(stack, f))
  /\ UNCHANGED status

\* the callback of AssignmentExpression that flags no implicit global
assignedLeafNoCandidate(M, leaf) ==
  __referencing(referencingDefaultValue(M, leaf, leaf.defaults, FALSE, FALSE),
                M.cur, leaf.name, "w", "assign", FALSE, ~leaf.top, FALSE)

\* the callback of AssignmentExpression that records the default values as
\* initializing writes
assignedLeafInitializing(M, leaf) ==
  LET maybeImplicitGlobal == ~M.scopes[M.cur].isStrict
      M1 == referencingDefaultValue(M, leaf, leaf.defaults, maybeImplicitGlobal, TRUE)
  IN __referencing(M1, M1.cur, leaf.name, "w", "assign", maybeImplicitGlobal,
                   ~leaf.top, FALSE)

\* the callback AssignmentExpression gives to visitPattern, on one leaf
assignedLeaf(M, leaf) ==
  LET maybeImplicitGlobal == ~M.scopes[M.cur].isStrict
      M1 == referencingDefaultValue(M, leaf, leaf.defaults, maybeImplicitGlobal, FALSE)
  IN __referencing(M1, M1.cur, leaf.name, "w", "assign", maybeImplicitGlobal,
                   ~leaf.top, FALSE)

RECURSIVE assignedLeaves(_, _)
assignedLeaves(M, leaves) ==
  IF leaves = <<>> THEN M
  ELSE assignedLeaves(assignedLeaf(M, Head(leaves)), Tail(leaves))

\* the operators of an assignment: plain, and one compound for all
AssignmentOperators == {"=", "+="}

\* AssignmentExpression up to the visit of node.left (when it is no pattern)
\* and node.right; node.left is a name, a pattern, or (name "", no pattern) a
\* member expression
AssignmentExpression ==
  /\ InExpressions
  /\ \E name \in AllNames \cup {""}, operator \in AssignmentOperators,
        pats \in AssignmentTargets :
       LET tok == With(Tk("AssignmentExpression", name, operator, FALSE, FALSE), pats)
           isPattern == name # "" \/ pats # <<>>
           f == Frame(nnodes + 1, IF isPattern THEN "expr" ELSE "target", tok)
       IN /\ name = "" \/ pats = <<>>
          /\ operator = "=" \/ pats = <<>>
          /\ Visit(tok,
                   IF ~isPattern THEN Mgr
                   ELSE IF operator = "="
                   THEN visitRightHandNodes(
                          assignedLeaves(Mgr, PatternOf(tok).leaves),
                          PatternOf(tok).rights)
                   ELSE __referencing(Mgr, cur, name, "rw", "assign",
                                      FALSE, FALSE, FALSE),
                   Append(stack, f))
  /\ UNCHANGED status

\* UpdateExpression; node.argument is a name or (name "") a member expression
UpdateExpression ==
  /\ InExpressions
  /\ \E name \in AllNames \cup {""} :
       LET tok == Enter("UpdateExpression", name) IN
       Visit(tok,
             IF name # ""
             THEN __referencing(Mgr, cur, name, "rw", "none", FALSE, FALSE, FALSE)
             ELSE Mgr,
             IF name # "" THEN stack
             ELSE Append(stack, Frame(nnodes + 1, "target", tok)))
  /\ UNCHANGED status

\* a member expression that visits its property whether computed or not
MemberExpressionWithProperty ==
  /\ Walking /\ Top.ctx \in {"stmt", "expr", "head", "target"}
  /\ \E name \in AllNames \cup {""} :
       LET tok == Tk("MemberExpression", name, IF name = "" THEN "computed" ELSE "",
                     FALSE, FALSE)
           after == IF Top.ctx # "target" THEN Top.ctx
                    ELSE IF Top.type = "UpdateExpression" THEN "end" ELSE "expr"
       IN Visit(tok,
                IF name # "" THEN IdentifierOf(Mgr, name) ELSE Mgr,
                Append([stack EXCEPT ![Len(stack)].ctx = after],
                       Frame(nnodes + 1, "expr", tok)))
  /\ UNCHANGED status

\* MemberExpression up to the visit of node.object; the property is the name
\* name, which is not visited, or is computed (name ""), and visited after
\* the object
MemberExpression ==
  /\ Walking /\ Top.ctx \in {"stmt", "expr", "head", "target"}
  /\ \E name \in AllNames \cup {""} :
       LET tok == Tk("MemberExpression", name, IF name = "" THEN "computed" ELSE "",
                     FALSE, FALSE)
           after == IF Top.ctx # "target" THEN Top.ctx
                    ELSE IF Top.type = "UpdateExpression" THEN "end" ELSE "expr"
       IN Visit(tok, Mgr,
                Append([stack EXCEPT ![Len(stack)].ctx = after],
                       Frame(nnodes + 1, "expr", tok)))
  /\ UNCHANGED status

ForOfStatement ==
  /\ InStatements
  /\ \E kind \in {""} \cup DeclarationKinds, name \in AllNames,
        strict \in StrictInputs :
       LET tok == Tk("ForOfStatement", name, kind, FALSE, strict)
           f == Frame(nnodes + 1, "stmt", tok)
       IN Visit(tok, visitForIn(Mgr, f.node, kind, strict), Append(stack, f))
  /\ UNCHANGED status

\* an import declaration with one specifier, whose local name is name, visited
\* without the assertion on the mode
ImportDeclarationUnasserted ==
  /\ InStatements
  /\ \E name \in AllNames :
       LET tok == Enter("ImportDeclaration", name) IN
       Visit(tok,
             __define(Mgr, cur, name,
                      Definition("ImportBinding", Node(nnodes + 1, tok.t, name),
                                 "", cur)),
             stack)
  /\ UNCHANGED status

\* an import declaration with one specifier, whose local name is name
ImportDeclaration ==
  /\ InStatements
  /\ \E name \in AllNames :
       LET tok == Enter("ImportDeclaration", name) IN
       IF __isES6 /\ isModule
       THEN /\ Visit(tok,
                     __define(Mgr, cur, name,
                              Definition("ImportBinding",
                                         Node(nnodes + 1, tok.t, name), "", cur)),
                     stack)
            /\ UNCHANGED status
       ELSE /\ Visit(tok, Mgr, stack)
            /\ status' = "aborted"

\* the handlers that end with this.close(node)
ClosingTypes ==
  {"Program", "FunctionDeclaration", "FunctionExpression",
   "ArrowFunctionExpression", "BlockStatement", "ClassDeclaration",
   "ClassExpression", "WithStatement", "SwitchStatement", "CatchClause",
   "ForStatement", "ForInStatement", "ForOfStatement"}

\* a return whose close throws when the current scope is not the node's
HandlerReturnFatal ==
  /\ Walking
  /\ Top.ctx \notin {"head", "for-init", "target"}
  /\ mode \in Free \/ Allowed(Leave)
  /\ LET fits == cur # 0 /\ scopes[cur].block.id = Top.node.id
         M == IF Top.type \in ClosingTypes THEN close(Mgr, Top.node) ELSE Mgr
     IN /\ Commit(M)
        /\ last' = [op |-> "return", type |-> Top.type,
                    closed |-> Cardinality(Closed(M.scopes) \ Closed(scopes)),
                    frame |-> Top]
        /\ status' = IF Top.type \in ClosingTypes /\ ~fits THEN "aborted"
                      ELSE IF Len(stack) = 1 THEN "done" ELSE status
  /\ Pop
  /\ pc' = IF mode \in Free THEN pc ELSE pc + 1
  /\ UNCHANGED <<opts, mode, nnodes>>

\* the children of the node are done: the rest of its handler runs
HandlerReturn ==
  /\ Walking
  /\ Top.ctx \notin {"head", "for-init", "target"}
  /\ mode \in Free \/ Allowed(Leave)
  /\ LET M == IF Top.type \in ClosingTypes THEN close(Mgr, Top.node) ELSE Mgr IN
       /\ Commit(M)
       /\ last' = [op |-> "return", type |-> Top.type,
                   closed |-> Cardinality(Closed(M.scopes) \ Closed(scopes)),
                   frame |-> Top]
  /\ Pop
  /\ status' = IF Len(stack) = 1 THEN "done" ELSE status
  /\ pc' = IF mode \in Free THEN pc ELSE pc + 1
  /\ UNCHANGED <<opts, mode, nnodes>>

Init ==
  /\ mode \in Free \cup DOMAIN Scripts
  /\ opts \in IF mode \in Free THEN Families[mode].options ELSE AllOptions
  /\ pc = 0
  /\ stack = <<>>
  /\ scopes = <<>>
  /\ cur = 0
  /\ refs = <<>>
  /\ nnodes = 0
  /\ status = "start"
  /\ last = [op |-> "start", type |-> "", closed |-> 0]

Next ==
  \/ Program
  \/ FunctionDeclaration
  \/ FunctionExpression
  \/ ArrowFunctionExpression
  \/ BlockStatement
  \/ Identifier
  \/ VariableDeclaration
  \/ VariableDeclarator
  \/ ClassDeclaration
  \/ ClassExpression
  \/ WithStatement
  \/ SwitchStatement
  \/ HeadReturn
  \/ CatchClause
  \/ ForStatement
  \/ ForInStatement
  \/ ForOfStatement
  \/ ImportDeclaration
  \/ AssignmentExpression
  \/ UpdateExpression
  \/ MemberExpression
  \/ HandlerReturn

Spec == Init /\ [][Next]_vars

(***************************************************************************)
(* What the properties below speak of.                                     *)
(***************************************************************************)
Scopes == DOMAIN scopes

Refs == DOMAIN refs

\* a scope and the scopes on its upper chain
RECURSIVE Ancestors(_)
Ancestors(s) == IF s = 0 THEN {} ELSE {s} \cup Ancestors(scopes[s].upper)

Children(s) == {c \in Scopes : scopes[c].upper = s}

\* the references a scope resolves when it closes
Pending(s) == Range(scopes[s].references) \cup Range(scopes[s].through)

ScopesOf(id) == {s \in Scopes : scopes[s].block.id = id}

\* the step is the return of a handler
Returning == Walking /\ Len(stack') = Len(stack) - 1

\* C1: scopes close in the reverse of the order they opened in: a scope that
\* closes does so in the return of the handler of its own block, was the
\* current scope or became it when its child closed in the same close, and
\* leaves no scope opened after it open.
C1_ClosingIsLIFO ==
  [][\A s \in Scopes :
       (~scopes[s].closed /\ scopes'[s].closed) =>
         /\ Returning
         /\ scopes[s].block.id = Top.node.id
         /\ \/ s = cur
            \/ \E c \in Children(s) : c \in Ancestors(cur) /\ scopes'[c].closed
         /\ \A t \in DOMAIN scopes' : t > s => scopes'[t].closed]_vars

\* an inner construct's scope and the next outer construct's scope have both
\* closed, and a function expression's two scopes have closed in one return
C1_Witness ==
  /\ \E s, t \in Scopes :
       /\ scopes[t].upper = s /\ scopes[s].block.id # scopes[t].block.id
       /\ scopes[s].closed /\ scopes[t].closed
  /\ last.op = "return" /\ last.closed = 2

\* C2: a scope closes, and so resolves its references, only once all its
\* child scopes have closed; what a closed scope did not resolve is in the
\* through of its upper; and what is in a scope's through came from a closed
\* child that did not resolve it, so that a reference goes up one scope at a
\* time and is resolved only by a closed scope that received it.
C2_ForwardingNeverSkipsALevel ==
  /\ \A s \in Scopes :
       /\ scopes[s].closed => \A c \in Children(s) : scopes[c].closed
       /\ \A r \in Range(scopes[s].through) :
            \E c \in Children(s) :
              /\ scopes[c].closed
              /\ r \in Pending(c)
              /\ ~HasVar(scopes[c], refs[r].name)
       /\ (scopes[s].closed /\ scopes[s].upper # 0) =>
            \A r \in Pending(s) :
              ~HasVar(scopes[s], refs[r].name) =>
                r \in Range(scopes[scopes[s].upper].through)
  /\ \A r \in Refs :
       /\ r \in Range(scopes[refs[r].from].references)
       /\ refs[r].resolved # 0 =>
            /\ scopes[refs[r].resolved].closed
            /\ r \in Pending(refs[r].resolved)
            /\ HasVar(scopes[refs[r].resolved], refs[r].name)

\* a reference went up two levels: it is in the through of the upper of the
\* upper of the scope it was recorded in, and was resolved there
C2_Witness ==
  \E r \in Refs :
    LET s == refs[r].from IN
    /\ scopes[s].upper # 0
    /\ scopes[scopes[s].upper].upper # 0
    /\ refs[r].resolved = scopes[scopes[s].upper].upper
    /\ r \in Range(scopes[scopes[s].upper].through)

\* C3: a reference is resolved, if at all, to a Variable of the scope it was
\* recorded in or of a scope on that scope's upper chain, and after the walk
\* every reference is either so resolved or unresolved.
C3_ResolvedOnOwnChain ==
  \A r \in Refs :
    /\ refs[r].resolved \in {0} \cup Ancestors(refs[r].from)
    /\ refs[r].resolved # 0 => HasVar(scopes[refs[r].resolved], refs[r].name)

\* the walk is over, a reference is resolved in a proper ancestor, and a
\* reference is unresolved although a scope off its chain has its name
C3_Witness ==
  /\ status = "done"
  /\ \E r \in Refs : refs[r].resolved \notin {0, refs[r].from}
  /\ \E r \in Refs, v \in Scopes :
       /\ refs[r].resolved = 0
       /\ v \notin Ancestors(refs[r].from)
       /\ HasVar(scopes[v], refs[r].name)

\* every definition made so far: the scope that holds it, its name, itself
AllDefs ==
  UNION {UNION {{[in |-> w, name |-> scopes[w].variables[i].name,
                  d |-> scopes[w].variables[i].defs[j]] :
                   j \in DOMAIN scopes[w].variables[i].defs} :
                i \in DOMAIN scopes[w].variables} :
         w \in Scopes}

\* the scope the language binds a declaration in: the nearest variable scope
\* of the place of a var, the scope of the place of any other declaration
BindingScope(d) == IF d.kind = "var" THEN scopes[d.at].variableScope ELSE d.at

\* a declaration of name binds it in scope v
Declares(v, name) == \E e \in AllDefs : e.name = name /\ BindingScope(e.d) = v

\* the nearest scope, from s outwards, that a declaration binds name in
RECURSIVE Nearest(_, _)
Nearest(s, name) ==
  IF s = 0 THEN 0
  ELSE IF Declares(s, name) THEN s ELSE Nearest(scopes[s].upper, name)

\* what a reference to a name bound in v is resolved to: nothing before v
\* closes, v's Variable from then on
ResolvedBy(v) == IF scopes[v].closed THEN v ELSE 0

\* C4: when a scope declares a name that a scope further out declares too, a
\* read of the name recorded in the inner scope, or in a scope nested in it
\* with no declaration of the name nearer to the read, resolves to the inner
\* scope's Variable (once that scope closes) and never to the outer one.
C4_ReadsResolveToInnerDeclaration ==
  \A r \in Refs :
    LET v == Nearest(refs[r].from, refs[r].name) IN
    (/\ refs[r].flag = "r"
     /\ v # 0
     /\ \E o \in Ancestors(scopes[v].upper) : Declares(o, refs[r].name))
    => refs[r].resolved = ResolvedBy(v)

\* let x; { let x; { x; } x; } x; has been walked: the read in the innermost
\* block and the read beside the inner declaration resolve to the block's x
C4_Witness ==
  /\ mode = "shadowing" /\ __isES6 /\ status = "done"
  /\ \E r1, r2, r3 \in Refs, v \in Scopes :
       /\ r1 < r2 /\ r2 < r3
       /\ scopes[v].type = "block"
       /\ refs[r1].from # v /\ scopes[refs[r1].from].upper = v
       /\ refs[r1].resolved = v /\ refs[r2].resolved = v
       /\ refs[r3].resolved = scopes[v].upper
       /\ HasVar(scopes[scopes[v].upper], "x")

\* C5: a var declaration defines its name in the nearest variable scope of
\* the place it stands in, and every reference to the name recorded in a
\* scope of that variable scope - before the declaration, in its block or
\* outside it - for which it is the nearest declaration resolves to that one
\* Variable (once the variable scope closes).
C5_VarIsHoisted ==
  \A e \in AllDefs :
    e.d.kind = "var" =>
      LET f == scopes[e.d.at].variableScope IN
      /\ e.in = f
      /\ \A r \in Refs :
           (/\ refs[r].name = e.name
            /\ scopes[refs[r].from].variableScope = f
            /\ Nearest(refs[r].from, e.name) = f)
           => refs[r].resolved = ResolvedBy(f)

\* function outer(){ x; { var x; x; } x; } has been walked with block
\* scopes: the var stands in the block, is defined in the function scope, and
\* the reads before, in and after the block resolve to it
C5_Witness ==
  /\ mode = "hoisting" /\ status = "done"
  /\ \E e \in AllDefs, r1, r2, r3 \in Refs :
       /\ e.d.kind = "var" /\ e.d.at # e.in /\ scopes[e.d.at].type = "block"
       /\ r1 < r2 /\ r2 < r3
       /\ refs[r1].from = e.in /\ refs[r2].from = e.d.at /\ refs[r3].from = e.in
       /\ \A r \in {r1, r2, r3} : refs[r].resolved = e.in

\* the handler that returns ends with close(node), and the current scope is
\* none or the scope of another node
ClosesNothing ==
  /\ Returning
  /\ Top.type \in ClosingTypes
  /\ cur = 0 \/ scopes[cur].block.id # Top.node.id

\* C6 as stated: a close that cannot close a scope of its node aborts the
\* analysis.
C6_CloseOfNothingIsFatal == [][ClosesNothing => status' = "aborted"]_vars

\* C6: a close that finds no scope of its node open (the node nested none,
\* as a block before ES6 or a loop over a var does) does nothing: the scopes,
\* the current scope and the references are left as they are, and the handler
\* returns normally.
C6_CloseOfNothingIsNoOp ==
  [][ClosesNothing =>
       /\ scopes' = scopes /\ cur' = cur /\ refs' = refs
       /\ status' = "walking"]_vars

\* a handler that ends with close has returned, closed nothing, and the walk
\* goes on
C6_Witness ==
  /\ status = "walking"
  /\ last.op = "return" /\ last.type = "BlockStatement" /\ last.closed = 0
  /\ ~__isES6 /\ cur # 0 /\ ~scopes[cur].closed

\* the last step was the visit of an import declaration outside an ES6 module
ImportOutsideModule ==
  /\ last.op = "visit" /\ last.type = "ImportDeclaration"
  /\ ~(__isES6 /\ isModule)

ImportBindings == {e \in AllDefs : e.d.type = "ImportBinding"}

\* C7 as stated: an import declaration outside an ES6 module is skipped: it
\* defines nothing and the walk goes on.
C7_ImportOutsideModuleIsSkipped ==
  ImportOutsideModule => status = "walking" /\ ImportBindings = {}

\* C7: an import declaration outside an ES6 module fails the handler's
\* assertion: no ImportBinding is defined and the whole walk is aborted there;
\* nothing else aborts a walk, and inside an ES6 module the import defines
\* its local name.
C7_ImportOutsideModuleAborts ==
  /\ status = "aborted" <=> ImportOutsideModule
  /\ ~(__isES6 /\ isModule) => ImportBindings = {}
  /\ (last.op = "visit" /\ last.type = "ImportDeclaration" /\ __isES6 /\ isModule)
       => \E e \in ImportBindings : e.in = cur /\ e.d.node = nnodes

\* a walk was aborted by an import declaration, its Program handler never
\* returned and its scopes were left open
C7_Witness ==
  /\ status = "aborted" /\ ImportOutsideModule
  /\ Len(stack) > 0 /\ cur # 0 /\ \A t \in Scopes : ~scopes[t].closed

\* the nodes that are the block of a scope
Blocks == {scopes[s].block : s \in Scopes}

NamedFunctionExpression(b) == b.type = "FunctionExpression" /\ b.name # ""

\* the scopes Program nests: Global, the function scope of the host's module
\* wrapper, the Module scope
ProgramScopeCount ==
  1 + (IF __isNodejsScope THEN 1 ELSE 0) + (IF __isES6 /\ isModule THEN 1 ELSE 0)

\* C8 as stated: every node that is the block of a scope is the block of
\* exactly one, a named function expression of exactly two, Program included.
C8_OneScopePerConstruct ==
  \A b \in Blocks :
    Cardinality(ScopesOf(b.id)) = IF NamedFunctionExpression(b) THEN 2 ELSE 1

\* C8: every node that is the block of a scope is the block of exactly one,
\* but for a named function expression (its FunctionExpressionName scope and,
\* directly under it, its Function scope) and for Program (the Global scope,
\* then the wrapper Function scope under nodejsScope, then the Module scope
\* in an ES6 module, each the upper of the next).
C8_OneScopePerConstructButProgram ==
  \A b \in Blocks :
    LET S == ScopesOf(b.id) IN
    /\ Cardinality(S) = IF NamedFunctionExpression(b) THEN 2
                         ELSE IF b.type = "Program" THEN ProgramScopeCount
                         ELSE 1
    /\ \A s \in S : s + 1 \in S => scopes[s + 1].upper = s
    /\ \A s \in S : s - 1 \in S \/ s + 1 \in S \/ Cardinality(S) = 1
    /\ NamedFunctionExpression(b) =>
         \E s \in S : /\ scopes[s].type = "function-expression-name"
                       /\ scopes[s + 1].type = "function"
    /\ b.type = "Program" =>
         /\ scopes[1].type = "global"
         /\ \A s \in S \ {1} : scopes[s].type \in {"function", "module"}
         /\ \A s \in S : scopes[s].type = "module" => s + 1 \notin S

\* Program is the block of three scopes and a named function expression of
\* two
C8_Witness ==
  /\ ProgramScopeCount = 3
  /\ \E b \in Blocks : b.type = "Program" /\ Cardinality(ScopesOf(b.id)) = 3
  /\ \E b \in Blocks : NamedFunctionExpression(b) /\ Cardinality(ScopesOf(b.id)) = 2

\* the implied-strict hint is on and the language edition has strict mode
Hinted == isStrictModeSupported /\ isImpliedStrict

\* the scopes of the Program node, and the last of them
ProgramScopeSet == {s \in Scopes : scopes[s].block.type = "Program"}

Innermost(S) == CHOOSE s \in S : \A t \in S : t <= s

\* C9 as stated: with the hint on, the Global scope is strict once Program
\* has set up its scopes, and the other scopes of Program have the
\* strictness they were created with.
C9_HintSetsGlobalOnly ==
  (Hinted /\ status = "walking") =>
    /\ scopes[1].isStrict
    /\ \A s \in ProgramScopeSet \ {1} : scopes[s].isStrict = stack[1].strict

\* C9: the hint sets isStrict on the scope that is current once Program has
\* nested its scopes - the Module scope, else the wrapper Function scope,
\* else the Global scope - and on no other; under nodejsScope the Global
\* scope is non-strict whatever the hint; every other scope has the
\* strictness it was created with, and no step changes a scope's isStrict.
C9_HintSetsInnermostProgramScope ==
  [][/\ \A s \in Scopes : scopes'[s].isStrict = scopes[s].isStrict
     /\ \A s \in DOMAIN scopes' \ Scopes :
          LET f == stack'[Len(stack')]
              P == {t \in DOMAIN scopes' : scopes'[t].block.type = "Program"}
          IN scopes'[s].isStrict =
               IF s \in P /\ s = Innermost(P) /\ Hinted THEN TRUE
               ELSE IF s = 1 /\ __isNodejsScope THEN FALSE
               ELSE f.strict]_vars

\* with the hint on, under nodejsScope, in a Program that is not strict by
\* itself: the Global scope is not strict and the innermost scope of Program
\* is
C9_Witness ==
  /\ Hinted /\ __isNodejsScope /\ status = "walking"
  /\ ~stack[1].strict
  /\ ~scopes[1].isStrict
  /\ Innermost(ProgramScopeSet) # 1
  /\ scopes[Innermost(ProgramScopeSet)].isStrict
  /\ \E s \in Scopes \ ProgramScopeSet : ~scopes[s].isStrict

\* the walk of function outer(){ var x = 1; { let x = 2; console.log(x); }
\* console.log(x); } is over, with block scopes
Scenario1Done == mode = "s1" /\ status = "done" /\ __isES6

TheBlock == CHOOSE s \in Scopes : scopes[s].type = "block"

TheFunction ==
  CHOOSE s \in Scopes : scopes[s].type = "function" /\ scopes[s].block.name = "outer"

\* the reads of x, in source order
ReadsOfX == {r \in Refs : refs[r].name = "x" /\ refs[r].flag = "r"}

InnerRead == CHOOSE r \in ReadsOfX : \A q \in ReadsOfX : r <= q

OuterRead == CHOOSE r \in ReadsOfX : \A q \in ReadsOfX : q <= r

VariableX(s) == scopes[s].variables[VarIdx(scopes[s], "x")]

\* C10 as stated: the inner read resolves to the block's x, which has one
\* definition and one reference; the outer read resolves to the function's x.
C10_Scenario1OneReference ==
  Scenario1Done =>
    /\ refs[InnerRead].resolved = TheBlock
    /\ Len(VariableX(TheBlock).defs) = 1
    /\ Len(VariableX(TheBlock).references) = 1
    /\ refs[OuterRead].resolved = TheFunction

\* C10: the inner read resolves to the block's x, which has one definition
\* and two references - the write of its initializer 2 and the inner read;
\* the outer read resolves to the function's var x, which likewise has one
\* definition and the write of its initializer and the outer read.
C10_Scenario1 ==
  Scenario1Done =>
    /\ Cardinality(ReadsOfX) = 2
    /\ refs[InnerRead].resolved = TheBlock /\ refs[InnerRead].from = TheBlock
    /\ Len(VariableX(TheBlock).defs) = 1
    /\ VariableX(TheBlock).defs[1].kind = "let"
    /\ Len(VariableX(TheBlock).references) = 2
    /\ refs[VariableX(TheBlock).references[1]].flag = "w"
    /\ refs[VariableX(TheBlock).references[1]].init
    /\ VariableX(TheBlock).references[2] = InnerRead
    /\ refs[OuterRead].resolved = TheFunction /\ refs[OuterRead].from = TheFunction
    /\ Len(VariableX(TheFunction).defs) = 1
    /\ VariableX(TheFunction).defs[1].kind = "var"
    /\ Len(VariableX(TheFunction).references) = 2
    /\ refs[VariableX(TheFunction).references[1]].flag = "w"
    /\ VariableX(TheFunction).references[2] = OuterRead

C10_Witness ==
  /\ Scenario1Done
  /\ refs[InnerRead].resolved = TheBlock
  /\ refs[OuterRead].resolved = TheFunction
  /\ InnerRead < OuterRead
  /\ scopes[TheBlock].upper = TheFunction

\* the writes of plain assignments: their source is the assignment's right side
AssignmentWrites ==
  {r \in Refs : refs[r].flag = "w" /\ refs[r].writeExpr = "assign"}

\* no scope on the chain of the reference's scope has a Variable of its name
Undeclared(r) ==
  \A a \in Ancestors(refs[r].from) : ~HasVar(scopes[a], refs[r].name)

\* C11: the write of a plain assignment carries an implicit-global candidate
\* exactly when the scope it is recorded in is not strict; the assignment
\* raises no error; and when no scope on its chain declares the name, the
\* write ends the walk unresolved among the references that reached the
\* Global scope.
C11_ImplicitGlobalCandidate ==
  /\ \A r \in AssignmentWrites :
       /\ refs[r].maybeImplicitGlobal = ~scopes[refs[r].from].isStrict
       /\ (status = "done" /\ Undeclared(r)) =>
            refs[r].resolved = 0 /\ r \in Pending(1)
  /\ (last.op = "visit" /\ last.type = "AssignmentExpression"
        /\ last.tok.kind = "=" /\ last.tok.name # "") =>
       /\ status = "walking"
       /\ Len(refs) \in AssignmentWrites
       /\ refs[Len(refs)].name = last.tok.name
       /\ refs[Len(refs)].from = cur

\* a walk is over in which an undeclared name was assigned in a strict Global
\* scope (no candidate) and in a non-strict function (a candidate, forwarded
\* to the Global scope): both writes are unresolved
C11_Witness ==
  /\ status = "done"
  /\ \E r, q \in AssignmentWrites :
       /\ Undeclared(r) /\ Undeclared(q)
       /\ scopes[refs[r].from].type = "function"
       /\ ~scopes[refs[r].from].isStrict /\ refs[r].maybeImplicitGlobal
       /\ r \in Range(scopes[1].through) /\ refs[r].resolved = 0
       /\ scopes[refs[q].from].isStrict /\ ~refs[q].maybeImplicitGlobal
       /\ refs[q].resolved = 0

\* the references the last step recorded, it being the entry of a handler
NewRefs == {r \in Refs : last.op = "visit" /\ r > last.before}

NewWrites(name, writeExpr) ==
  {r \in NewRefs : /\ refs[r].flag = "w" /\ refs[r].name = name
                    /\ refs[r].writeExpr = writeExpr}

LeafNames(pat) == {pat.leaves[i].name : i \in DOMAIN pat.leaves}

\* the definitions made on the node numbered id
DefsOn(id) == {e \in AllDefs : e.d.node = id}

\* C12: a declarator defines exactly the leaf names of its pattern, as
\* Variable bindings of the declaration's kind in the declaration's target
\* scope; it records, in the current scope, for each leaf one write per
\* default value around the leaf and, when there is an initializer, one write
\* whose source is the initializer, all with init = true, and one read per
\* name its default values read; the initializer is visited next.  For
\* let {a = f(), b: [c = 1]} = obj that is: a and c defined, b not, one read
\* of f and one of obj, two initializing writes of a and two of c.
C12_DestructuringDeclaration ==
  /\ (last.op = "visit" /\ last.type = "VariableDeclarator") =>
       LET pat == PatternOf(last.tok) IN
       /\ \A e \in DefsOn(nnodes) :
            /\ e.name \in LeafNames(pat) /\ e.in = Top.target
            /\ e.d.type = "Variable" /\ e.d.kind = Top.kind
       /\ \A i \in DOMAIN pat.leaves :
            /\ \E e \in DefsOn(nnodes) : e.name = pat.leaves[i].name
            /\ Cardinality(NewWrites(pat.leaves[i].name, "default"))
                 = Len(pat.leaves[i].defaults)
            /\ Cardinality(NewWrites(pat.leaves[i].name, "init"))
                 = IF last.tok.init THEN 1 ELSE 0
       /\ \A r \in NewRefs :
            /\ refs[r].from = cur
            /\ refs[r].flag \in {"w", "r"}
            /\ refs[r].flag = "w" =>
                 /\ refs[r].init /\ refs[r].name \in LeafNames(pat)
                 /\ refs[r].writeExpr \in {"default", "init"}
            /\ refs[r].flag = "r" => refs[r].name \in Range(pat.rights) \ {""}
       /\ \A n \in Range(pat.rights) \ {""} :
            \E r \in NewRefs : refs[r].flag = "r" /\ refs[r].name = n
  /\ (mode = "destructuring" /\ status = "done") =>
       /\ {e.name : e \in AllDefs} = {"a", "c"}
       /\ \A n \in {"f", "obj"} :
            Cardinality({r \in Refs : refs[r].name = n /\ refs[r].flag = "r"}) = 1
       /\ \A n \in {"a", "c"} :
            /\ Cardinality({r \in Refs : refs[r].name = n}) = 2
            /\ \A r \in Refs : refs[r].name = n => refs[r].flag = "w" /\ refs[r].init

\* the declarator of let {a = f(), b: [c = 1]} = obj has just been visited
C12_Witness ==
  /\ mode = "destructuring" /\ last.op = "visit" /\ last.type = "VariableDeclarator"
  /\ Cardinality(NewRefs) = 5
  /\ Cardinality(DefsOn(nnodes)) = 2
  /\ \E r \in NewRefs : refs[r].name = "c" /\ refs[r].writeExpr = "init" /\ refs[r].partial

\* the head of a loop is a declaration that is not a var
BlockScopedHead(kind) == kind \notin {"", "var"}

\* C13: a for, for-in or for-of statement has a For scope exactly when its
\* head is a declaration that is not a var, and its return closes that scope
\* or, when there is none, closes nothing; the variable of a block-scoped head
\* is defined in the For scope, a var of the head in the variable scope of the
\* enclosing scope; and a use for which the For scope's declaration is the
\* nearest resolves to the For scope's Variable.
C13_ForScope ==
  /\ \A i \in DOMAIN stack :
       stack[i].type \in ForTypes =>
         LET S == ScopesOf(stack[i].node.id) IN
         /\ S # {} <=> BlockScopedHead(stack[i].kind)
         /\ Cardinality(S) <= 1
         /\ \A s \in S : scopes[s].type = "for" /\ ~scopes[s].closed
  /\ \A s \in Scopes : scopes[s].type = "for" <=> scopes[s].block.type \in ForTypes
  /\ (last.op = "return" /\ last.type \in ForTypes) =>
       /\ last.closed = IF BlockScopedHead(last.frame.kind) THEN 1 ELSE 0
       /\ \A s \in ScopesOf(last.frame.node.id) : scopes[s].closed
  /\ (last.op = "visit" /\ last.type \in {"ForInStatement", "ForOfStatement"}
        /\ last.tok.kind # "") =>
       /\ DefsOn(nnodes) # {}
       /\ \A e \in DefsOn(nnodes) :
            /\ e.name = last.tok.name /\ e.d.type = "Variable"
            /\ e.in = IF BlockScopedHead(last.tok.kind) THEN cur
                       ELSE scopes[cur].variableScope
       /\ BlockScopedHead(last.tok.kind) <=> cur \in ScopesOf(nnodes)
  /\ (last.op = "visit" /\ last.type = "VariableDeclarator" /\ Len(stack) > 1
        /\ stack[Len(stack) - 1].type = "ForStatement") =>
       /\ \A e \in DefsOn(nnodes) :
            e.in = IF Top.kind = "var" THEN scopes[cur].variableScope ELSE cur
       /\ BlockScopedHead(stack[Len(stack) - 1].kind) =>
            cur \in ScopesOf(stack[Len(stack) - 1].node.id)
  /\ \A s \in Scopes, r \in Refs :
       (/\ scopes[s].type = "for" /\ s \in Ancestors(refs[r].from)
        /\ Nearest(refs[r].from, refs[r].name) = s)
       => refs[r].resolved = ResolvedBy(s)

\* for (const k in obj) { use(k); } has been walked with block scopes: the
\* read of k in the body's block resolves to the k of the For scope
C13_Witness ==
  /\ mode = "s2" /\ status = "done" /\ __isES6
  /\ \E r \in Refs, s \in Scopes :
       /\ refs[r].name = "k" /\ refs[r].flag = "r" /\ refs[r].resolved = s
       /\ scopes[s].type = "for" /\ scopes[s].block.type = "ForInStatement"
       /\ scopes[refs[r].from].type = "block" /\ scopes[refs[r].from].upper = s
       /\ Len(scopes[s].variables[VarIdx(scopes[s], "k")].defs) = 1
  /\ \A r \in Refs : refs[r].name \in {"obj", "use"} => refs[r].resolved = 0

ClassTypes == {"ClassDeclaration", "ClassExpression"}

\* the Class scopes of the classes that have a name
NamedClassScopes ==
  {s \in Scopes : scopes[s].type = "class" /\ scopes[s].block.name # ""}

\* C14: a class that has a name defines it (ClassName) in its Class scope, a
\* class declaration also in the scope it stands in, before its Class scope
\* is nested, and a class expression nowhere else; a reference to the name
\* for which the Class scope's definition is the nearest (as from a method
\* body) resolves to the Class scope's Variable, not to an outer one.
C14_ClassName ==
  /\ \A s \in NamedClassScopes :
       LET b == scopes[s].block IN
       /\ \A e \in DefsOn(b.id) : e.name = b.name /\ e.d.type = "ClassName"
       /\ {e.in : e \in DefsOn(b.id)} =
            IF b.type = "ClassDeclaration" THEN {s, scopes[s].upper} ELSE {s}
       /\ Cardinality(DefsOn(b.id)) = IF b.type = "ClassDeclaration" THEN 2 ELSE 1
       /\ \A r \in Refs :
            (/\ refs[r].name = b.name /\ s \in Ancestors(refs[r].from)
             /\ Nearest(refs[r].from, b.name) = s)
            => refs[r].resolved = ResolvedBy(s)
  /\ (last.op = "visit" /\ last.type \in ClassTypes) =>
       /\ ScopesOf(nnodes) = {}
       /\ {e.in : e \in DefsOn(nnodes)} =
            IF last.type = "ClassDeclaration" /\ last.tok.name # "" THEN {cur} ELSE {}

\* class C { m() { C; } } has been walked: C is a Variable of the Class scope
\* and of the scope around it, and the read in the method resolves to the
\* Class scope's
C14_Witness ==
  /\ mode = "s4" /\ status = "done"
  /\ \E s \in NamedClassScopes, r \in Refs :
       /\ HasVar(scopes[scopes[s].upper], "C") /\ HasVar(scopes[s], "C")
       /\ refs[r].name = "C" /\ refs[r].resolved = s
       /\ scopes[refs[r].from].type = "function"
       /\ scopes[refs[r].from].upper = s

FunctionTypes ==
  {"FunctionDeclaration", "FunctionExpression", "ArrowFunctionExpression"}

\* the scopes that bind the name of a named function expression
NameScopes == {s \in Scopes : scopes[s].type = "function-expression-name"}

FunctionNamesOn(id) == {e \in DefsOn(id) : e.d.type = "FunctionName"}

\* C15: the name of a function declaration is defined (FunctionName) in the
\* scope that is current when the declaration is visited - the upper scope of
\* its Function scope, whether a variable scope or not - before the Function
\* scope is nested; the name of a named function expression is the one
\* variable of a FunctionExpressionName scope whose only child is the
\* function's Function scope, so that only references from inside the
\* function resolve to it; and the return of the function closes both.
C15_FunctionName ==
  /\ (last.op = "visit" /\ last.type \in FunctionTypes) =>
       /\ scopes[cur].type = "function" /\ scopes[cur].block.id = nnodes
       /\ last.type = "FunctionDeclaration" =>
            /\ ScopesOf(nnodes) = {cur}
            /\ \A e \in FunctionNamesOn(nnodes) :
                 /\ e.name = last.tok.name
                 /\ e.in = scopes[cur].upper /\ e.d.at = scopes[cur].upper
            /\ Cardinality(FunctionNamesOn(nnodes))
                 = IF last.tok.name # "" THEN 1 ELSE 0
       /\ (last.type = "FunctionExpression" /\ last.tok.name # "") =>
            /\ scopes[cur].upper \in NameScopes
            /\ ScopesOf(nnodes) = {cur, scopes[cur].upper}
            /\ {e.in : e \in FunctionNamesOn(nnodes)} = {scopes[cur].upper}
  /\ \A s \in NameScopes :
       /\ Len(scopes[s].variables) = 1
       /\ scopes[s].variables[1].name = scopes[s].block.name
       /\ scopes[s].references = <<>>
       /\ Children(s) = {s + 1}
       /\ scopes[s + 1].type = "function" /\ scopes[s + 1].block = scopes[s].block
       /\ scopes[s].closed = scopes[s + 1].closed
       /\ \A r \in Refs :
            /\ refs[r].resolved = s => s + 1 \in Ancestors(refs[r].from)
            /\ (/\ refs[r].name = scopes[s].block.name
                 /\ s \in Ancestors(refs[r].from)
                 /\ Nearest(refs[r].from, refs[r].name) = s)
                => refs[r].resolved = ResolvedBy(s)
  /\ (last.op = "return" /\ last.type \in FunctionTypes) =>
       /\ last.closed = IF last.type = "FunctionExpression" /\ last.frame.name # ""
                         THEN 2 ELSE 1
       /\ \A s \in ScopesOf(last.frame.node.id) : scopes[s].closed

\* a walk is over in which a function declaration in a block defined its name
\* in the Block scope, a read inside a named function expression resolved
\* to the function's own name, and a read of the name after the function
\* expression did not
C15_Witness ==
  /\ status = "done"
  /\ \E s \in NameScopes, r, q \in Refs :
       /\ refs[r].resolved = s /\ refs[r].from = s + 1
       /\ q > r /\ refs[q].name = refs[r].name /\ refs[q].from = scopes[s].upper
       /\ refs[q].resolved # s

ParametersOn(id) == {e \in DefsOn(id) : e.d.type = "Parameter"}

\* the function scopes that have closed
ClosedFunctions == {s \in Scopes : scopes[s].type = "function" /\ scopes[s].closed}

\* C16: when a function is entered, every leaf of its parameter number i is
\* defined as a Parameter with index i in the new Function scope and nowhere
\* else, the variables of that scope stand in the order of their positions,
\* and every reference of the parameters (default writes and reads in the
\* defaults) is recorded in that scope; so a read in the function of the name
\* of one of its parameters resolves to the Function scope, and never to
\* the scope of a function expression's own name.
C16_Parameters ==
  /\ (last.op = "visit" /\ last.type \in FunctionTypes) =>
       LET params == last.tok.pats IN
       /\ \A e \in ParametersOn(nnodes) :
            /\ e.in = cur /\ e.d.at = cur
            /\ e.d.index \in 0 .. Len(params) - 1
            /\ e.name \in LeafNames(params[e.d.index + 1])
       /\ \A i \in DOMAIN params : \A n \in LeafNames(params[i]) :
            \E e \in ParametersOn(nnodes) : e.name = n /\ e.d.index = i - 1
       /\ \A i, j \in DOMAIN scopes[cur].variables :
            i < j => scopes[cur].variables[i].defs[1].index
                       <= scopes[cur].variables[j].defs[1].index
       /\ \A r \in NewRefs : refs[r].from = cur
       /\ \A i \in DOMAIN params : \A k \in DOMAIN params[i].rights :
            params[i].rights[k] # "" =>
              \E r \in NewRefs : /\ refs[r].name = params[i].rights[k]
                                  /\ refs[r].flag = "r"
  /\ \A s \in ClosedFunctions : \A r \in Refs :
       (refs[r].from = s /\ HasVar(scopes[s], refs[r].name)) =>
         /\ refs[r].resolved = s
         /\ refs[r].resolved # scopes[s].upper

\* the walk of (function f(f = f) { f; }); function f(x = y, y) {} is over:
\* the default's and the body's reads of f resolved to the parameter f
\* although the function's own name is f, and the default's read of y
\* resolved to the second parameter, whose index is 1
C16_Witness ==
  /\ status = "done" /\ mode = "parameters"
  /\ \E s \in NameScopes :
       /\ scopes[s].block.name = "f"
       /\ Cardinality({r \in Refs : /\ refs[r].name = "f" /\ refs[r].flag = "r"
                                     /\ refs[r].resolved = s + 1}) = 2
  /\ \E e \in AllDefs, r \in Refs :
       /\ e.name = "y" /\ e.d.type = "Parameter" /\ e.d.index = 1
       /\ refs[r].name = "y" /\ refs[r].resolved = e.in

\* the frames of the VariableDeclaration handlers that are running
Declarations == {i \in DOMAIN stack : stack[i].type = "VariableDeclaration"}

\* C17: a step never changes a scope that has closed - its variables, their
\* definitions and references, its references and what it left unresolved -
\* and never records a new reference against it; and the target scope a
\* running VariableDeclaration has captured is open, being the current scope
\* or one above it, whatever its earlier initializers nested and closed.
C17_ClosedScopesFrozen ==
  /\ [](\A i \in Declarations :
         /\ stack[i].target \in Ancestors(cur)
         /\ ~scopes[stack[i].target].closed)
  /\ [][\A s \in Scopes :
         scopes[s].closed =>
           /\ scopes'[s] = scopes[s]
           /\ \A r \in DOMAIN refs' : refs'[r].from = s => r \in Refs]_vars

\* in { var x = function () {}, y; } the declaration is still running after
\* the function of the first initializer has closed, and its second
\* declarator has defined y in the captured Global scope
C17_Witness ==
  /\ Declarations # {}
  /\ \E e \in AllDefs, s \in ClosedFunctions :
       /\ e.name = "y" /\ e.in = 1 /\ e.d.at # 1
       /\ scopes[s].block.id < e.d.node
       /\ \E i \in Declarations : stack[i].target = e.in /\ e.in # cur

\* the last step entered a plain assignment whose left side is a pattern (a
\* name is one)
PatternAssigned ==
  /\ last.op = "visit" /\ last.type = "AssignmentExpression"
  /\ last.tok.kind = "=" /\ (last.tok.name # "" \/ last.tok.pats # <<>>)

\* each leaf of the assignment's left side got one write from the right side
\* and one write per default value around it
OneWritePerLeaf ==
  LET left == PatternOf(last.tok) IN
  /\ \A i \in DOMAIN left.leaves :
       /\ Cardinality(NewWrites(left.leaves[i].name, "assign")) = 1
       /\ Cardinality(NewWrites(left.leaves[i].name, "default"))
            = Len(left.leaves[i].defaults)
  /\ \A r \in NewRefs :
       refs[r].flag = "w" => \E i \in DOMAIN left.leaves :
                               refs[r].name = left.leaves[i].name

\* C18 as stated: the writes for the default values of an assigned pattern
\* are initializing (init = true)
C18_DefaultsInitializing ==
  PatternAssigned =>
    /\ OneWritePerLeaf
    /\ \A r \in NewRefs : refs[r].writeExpr = "default" => refs[r].init
    /\ DefsOn(nnodes) = {}

\* C18: a plain assignment to a pattern records, in the current scope, for
\* each leaf one write whose source is the assignment's right side and one
\* write per default value around the leaf, none of them initializing
\* (init = false), and no assignment of any form defines anything.
C18_AssignmentWrites ==
  /\ PatternAssigned =>
       /\ OneWritePerLeaf
       /\ \A r \in NewRefs :
            refs[r].flag = "w" => ~refs[r].init /\ refs[r].from = cur
  /\ (last.op = "visit" /\ last.type = "AssignmentExpression") =>
       DefsOn(nnodes) = {}

\* {x = y} = ... has just been visited: x got one write for its default
\* value and one for the right side, neither initializing, and y was read
C18_Witness ==
  /\ PatternAssigned /\ last.tok.pats = << ObjectDefault >>
  /\ Cardinality(NewWrites("x", "default")) = 1
  /\ \A r \in NewWrites("x", "default") : ~refs[r].init
  /\ Cardinality(NewWrites("x", "assign")) = 1
  /\ \E r \in NewRefs : refs[r].name = "y" /\ refs[r].flag = "r"

\* the references the last step recorded are exactly one, of this kind, to
\* this name, in the current scope
OneReference(flag, name) ==
  /\ Cardinality(NewRefs) = 1
  /\ \A r \in NewRefs :
       refs[r].flag = flag /\ refs[r].name = name /\ refs[r].from = cur

\* C19: the visit of a simple name records exactly one reference, in the
\* current scope, of the kind of its use: an Identifier one read; the name
\* under ++/-- one read-write; the left name of a compound assignment one
\* read-write; the left name of a plain assignment one write; and entering a
\* member expression records nothing, its property name not being visited
\* (the object and a computed property are visited as Identifiers).
C19_ReferenceKinds ==
  last.op = "visit" =>
    /\ last.type = "Identifier" => OneReference("r", last.tok.name)
    /\ (last.type = "UpdateExpression" /\ last.tok.name # "") =>
         OneReference("rw", last.tok.name)
    /\ (last.type = "AssignmentExpression" /\ last.tok.name # "") =>
         OneReference(IF last.tok.kind = "=" THEN "w" ELSE "rw", last.tok.name)
    /\ last.type = "MemberExpression" => NewRefs = {}
    /\ (last.type \in {"UpdateExpression", "AssignmentExpression"}
         /\ last.tok.name = "" /\ last.tok.pats = <<>>) => NewRefs = {}

\* after x++, a member access with the property name x has been entered:
\* the only reference is the read-write of x++, and there is none for the
\* property
C19_Witness ==
  /\ last.op = "visit" /\ last.type = "MemberExpression" /\ last.tok.name = "x"
  /\ Len(refs) = 1
  /\ \E r \in Refs : refs[r].flag = "rw" /\ refs[r].name = "x"

\* the scopes of the constructs that visit a head expression first
HeadScopes == {s \in Scopes : scopes[s].type \in {"class", "with", "switch"}}

\* the visitor is in the head expression of a class, a with or a switch
InHead == Walking /\ Top.type \in HeadTypes /\ Top.ctx = "head"

\* C20: while the head expression of a class, a with statement or a switch is
\* visited the construct has no scope yet and the references are recorded
\* in the scope around it; the scope is nested when the head is done, after
\* every reference recorded so far; and no reference recorded before a
\* Class, With or Switch scope was nested lies in that scope or resolves
\* to a binding of it.
C20_HeadBeforeScope ==
  /\ InHead =>
       /\ ScopesOf(Top.node.id) = {}
       /\ last.op = "visit" => \A r \in NewRefs : refs[r].from = cur
  /\ (last.op = "body" /\ (last.type = "SwitchStatement" => __isES6)) =>
       /\ scopes[cur].block.id = Top.node.id
       /\ ScopesOf(Top.node.id) = {cur}
       /\ scopes[cur].since = Len(refs)
  /\ \A s \in HeadScopes : \A r \in Refs :
       r <= scopes[s].since =>
         /\ s \notin Ancestors(refs[r].from)
         /\ refs[r].resolved # s

\* the walk of (class C extends C {}); switch (x) { case 0: let x; }
\* with (x) {} is over: the Class scope binds C and the Switch scope binds x,
\* and the superclass C and the discriminant x, recorded in the Global scope
\* before those scopes were nested, were left unresolved
C20_Witness ==
  /\ status = "done" /\ mode = "heads"
  /\ \E c, w \in HeadScopes : \E r, q \in Refs :
       /\ scopes[c].type = "class" /\ HasVar(scopes[c], "C")
       /\ refs[r].name = "C" /\ r <= scopes[c].since
       /\ refs[r].from = scopes[c].upper /\ refs[r].resolved = 0
       /\ scopes[w].type = "switch" /\ HasVar(scopes[w], "x")
       /\ refs[q].name = "x" /\ q <= scopes[w].since
       /\ refs[q].from = scopes[w].upper /\ refs[q].resolved = 0
  /\ \E s \in HeadScopes : scopes[s].type = "with" /\ scopes[s].since = Len(refs)

\* the constructs that have a scope only when the edition has block scoping
BlockScopedTypes == {"BlockStatement", "SwitchStatement"}

\* C21: without block scoping (before ES6) a block statement and a switch
\* statement have no scope at any time - not when entered, not while their
\* children are visited, and their return closes nothing and leaves the
\* current scope as it is - so what is declared and referenced inside lies in
\* scopes of the enclosing constructs; a catch clause nests a Catch scope in
\* every edition; and in every edition a Block scope belongs to a
\* BlockStatement node that was visited as such, the body of a function
\* having no scope but the function's.
C21_NoBlockScopeBeforeES6 ==
  /\ ~__isES6 =>
       /\ \A s \in Scopes :
            /\ scopes[s].type \notin {"block", "switch"}
            /\ scopes[s].block.type \notin BlockScopedTypes
       /\ \A i \in DOMAIN stack :
            stack[i].type \in BlockScopedTypes =>
              /\ ScopesOf(stack[i].node.id) = {}
              /\ i > 1 /\ cur # 0 /\ ~scopes[cur].closed
       /\ (last.op = "return" /\ last.type \in BlockScopedTypes) =>
            /\ last.closed = 0
            /\ cur # 0 /\ ~scopes[cur].closed
            /\ ScopesOf(last.frame.node.id) = {}
       /\ \A r \in Refs : scopes[refs[r].from].block.type \notin BlockScopedTypes
       /\ \A e \in AllDefs : scopes[e.d.at].block.type \notin BlockScopedTypes
  /\ (last.op = "visit" /\ last.type = "CatchClause") =>
       /\ scopes[cur].type = "catch" /\ scopes[cur].block.id = nnodes
       /\ ScopesOf(nnodes) = {cur}
  /\ \A s \in Scopes :
       /\ scopes[s].type = "block" => scopes[s].block.type = "BlockStatement"
       /\ scopes[s].block.type \in FunctionTypes =>
            scopes[s].type \in {"function", "function-expression-name"}
  /\ (last.op = "visit" /\ last.type \in FunctionTypes) =>
       \A s \in ScopesOf(nnodes) : scopes[s].type # "block"

\* the walk of { var x; x; } switch (x) { case 0: var y; } try {} catch (k)
\* { k; } before ES6 is over: x and y were declared, and x read, in the
\* scope around the block and the switch, which is the only scope besides
\* the Catch scope that resolved k
C21_Witness ==
  /\ mode = "legacy" /\ ~__isES6 /\ ~__isNodejsScope /\ status = "done"
  /\ Cardinality(Scopes) = 2
  /\ \E c \in Scopes, r \in Refs :
       /\ scopes[c].type = "catch" /\ refs[r].name = "k" /\ refs[r].resolved = c
  /\ \A e \in AllDefs : e.name \in {"x", "y"} => e.in = 1 /\ e.d.at = 1
  /\ \E e \in AllDefs : e.name = "y"
  /\ Cardinality({r \in Refs : refs[r].name = "x" /\ refs[r].resolved = 1
                                  /\ refs[r].from = 1}) = 2

\* the leaves of the patterns of the node: of its parameters, of its id or
\* left side
TargetLeaves(tok) ==
  IF tok.t \in FunctionTypes
  THEN UNION {Range(tok.pats[i].leaves) : i \in DOMAIN tok.pats}
  ELSE Range(PatternOf(tok).leaves)

\* the writes the last step recorded for a declarator, an assignment or the
\* parameters of a function are partial where the leaf is not the whole left
\* side: the write from the initializer or the right side when the leaf is
\* not the whole pattern, the write from a default value when the leaf is not
\* the left side of that default
PartialWhereNested ==
  (last.op = "visit"
     /\ last.type \in FunctionTypes \cup {"VariableDeclarator", "AssignmentExpression"})
  => \A leaf \in TargetLeaves(last.tok) :
       /\ \A r \in NewWrites(leaf.name, "init") \cup NewWrites(leaf.name, "assign") :
            refs[r].partial <=> ~leaf.top
       /\ Cardinality({r \in NewWrites(leaf.name, "default") : refs[r].partial})
            = Cardinality({i \in DOMAIN leaf.defaults : ~leaf.defaults[i]})

\* the last step entered a for-in or for-of statement, whose left side is a
\* name or the declaration of a name
LoopHeadVisited ==
  last.op = "visit" /\ last.type \in {"ForInStatement", "ForOfStatement"}

\* C22 as stated: the write to the bare identifier that is the whole left
\* side of a for-in or for-of head is not partial
C22_PartialOnlyInPatterns ==
  /\ PartialWhereNested
  /\ LoopHeadVisited =>
       \A r \in NewWrites(last.tok.name, "right") : ~refs[r].partial

\* C22: a write from an initializer or from the right side of an assignment
\* is partial exactly when its leaf is not the whole left side, and a write
\* from a default value exactly when the leaf is not the left side of that
\* default; the one write a for-in or for-of head records from the loop's
\* right side is always partial, also to a bare identifier that is the whole
\* left side; a reference that is not a write is never partial.
C22_PartialWrites ==
  /\ PartialWhereNested
  /\ LoopHeadVisited =>
       /\ Cardinality(NewWrites(last.tok.name, "right")) = 1
       /\ \A r \in NewWrites(last.tok.name, "right") : refs[r].partial
  /\ \A r \in Refs :
       /\ refs[r].flag # "w" => ~refs[r].partial
       /\ (refs[r].writeExpr = "right") => refs[r].partial

\* the walk of var x = 1; for (x in obj) {} is over: the write to x from
\* the initializer is not partial, the write to x from the loop's right
\* side is
C22_Witness ==
  /\ mode = "loops" /\ status = "done"
  /\ \E r, q \in Refs :
       /\ refs[r].name = "x" /\ refs[r].writeExpr = "init" /\ ~refs[r].partial
       /\ refs[q].name = "x" /\ refs[q].writeExpr = "right" /\ refs[q].partial
       /\ ~refs[q].init /\ r < q

\* the walk is over, Program having returned
ProgramReturned == status = "done"

\* C23: when the visit of Program has returned, every scope nested during
\* the walk has been closed, once, and the current scope is null; the scopes
\* of the Program node - the Global scope, and the Function and Module
\* scopes when configured - were the last to close, in that one return, each
\* before the scope it is nested in; and while the walk goes on the current
\* scope is an open one, so that no scope is closed a second time.
C23_AllClosedAtEnd ==
  /\ ProgramReturned =>
       /\ cur = 0 /\ stack = <<>>
       /\ \A s \in Scopes : scopes[s].closed /\ Len(scopes[s].closedAt) = 1
       /\ last.op = "return" /\ last.type = "Program"
       /\ last.closed = ProgramScopeCount
       /\ ProgramScopeSet = 1 .. ProgramScopeCount
       /\ \A s \in ProgramScopeSet :
            scopes[s].closedAt[1] = Cardinality(Scopes) - (s - 1)
  /\ \A s \in Scopes : Len(scopes[s].closedAt) = IF scopes[s].closed THEN 1 ELSE 0
  /\ status = "walking" =>
       /\ cur # 0 /\ ~scopes[cur].closed
       /\ \A s \in ProgramScopeSet : ~scopes[s].closed

\* the walk of a module for a host that wraps it is over: the Module, the
\* Function and the Global scope of Program closed in Program's return, in
\* this order, after the scope of the construct inside
C23_Witness ==
  /\ ProgramReturned /\ ProgramScopeCount = 3 /\ Cardinality(Scopes) = 4
  /\ last.closed = 3
  /\ scopes[4].closedAt = << 1 >> /\ scopes[3].closedAt = << 2 >>
  /\ scopes[2].closedAt = << 3 >> /\ scopes[1].closedAt = << 4 >>

====
